---- MODULE Spec2Model ----
(***************************************************************************)
(* Feature engineering pass of fantasy-ai-ultimate.                        *)
(*                                                                         *)
(* Two programs are modelled side by side on the same input tables:        *)
(*   full   colab_feature_engineering_full.py  (engineer_features and      *)
(*          process_data)                                                  *)
(*   basic  colab_feature_engineering.py       (engineer_features and the  *)
(*          module-level pipeline that follows it)                         *)
(*                                                                         *)
(* Numbers.  Python floats produced by a division are kept as exact        *)
(* fractions <<numerator, denominator>>; np.tanh(x) is kept as             *)
(* <<numerator, denominator, "tanh">> of its argument.  A missing score    *)
(* (None/NaN, rejected by pd.notna) is the value NaN below.                *)
(*                                                                         *)
(* Input.  A game row has two different teams (home_team_id #              *)
(* away_team_id).  The games table is read row by row; the rows read so    *)
(* far are games_df.  The tables explored are bounded by AllowedInput.     *)
(* The auxiliary tables have all their columns, and weather_df is a        *)
(* sequence of records, so that building the lookups raises in neither     *)
(* program.  Of the player statistics only the points column is kept: no   *)
(* other column reaches a feature.                                         *)
(*                                                                         *)
(* Steps.  One step of the model is one iteration of the game loop, or one *)
(* stage of the pipeline around it, in both programs at once.  A program   *)
(* that has raised stays as it is.  train_test_split belongs to a library: *)
(* its two calls are one step that either returns or raises.               *)
(***************************************************************************)
EXTENDS Integers, Sequences, FiniteSets, TLC

(***************************************************************************)
(* Bounds of the explored input.                                           *)
(***************************************************************************)
MaxShort == 2
MaxDeep == 7
MaxLong == 11
MaxClass == 10

(***************************************************************************)
(* Program constants.                                                      *)
(***************************************************************************)
MinGames == 5
FormWindow == 10
RecentWindow == 5
NaN == -1

notna(x) == x # NaN

(***************************************************************************)
(* Timestamps (created_at) already parsed by pd.to_datetime.               *)
(***************************************************************************)
T1 == [hour |-> 19, dayofweek |-> 5, month |-> 11]
T2 == [hour |-> 0, dayofweek |-> 0, month |-> 1]

(***************************************************************************)
(* Game rows without their id; the id of a row is its position.            *)
(***************************************************************************)
ShortGames ==
  { g \in [home_team_id : {1, 2}, away_team_id : {1, 2},
           home_score : {NaN, 1, 2}, away_score : {NaN, 1},
           created_at : {T1}] : g.home_team_id # g.away_team_id }

DeepGames ==
  { [home_team_id |-> 1, away_team_id |-> 2, home_score |-> 2, away_score |-> 1, created_at |-> T1],
    [home_team_id |-> 2, away_team_id |-> 1, home_score |-> 1, away_score |-> 1, created_at |-> T2],
    [home_team_id |-> 3, away_team_id |-> 1, home_score |-> 0, away_score |-> 1, created_at |-> T1],
    [home_team_id |-> 1, away_team_id |-> 3, home_score |-> 2, away_score |-> 2, created_at |-> T2],
    [home_team_id |-> 2, away_team_id |-> 3, home_score |-> NaN, away_score |-> 1, created_at |-> T2] }

\* the first rows of every deep table: four scored games between teams 1 and 2
DeepOpening ==
  << [home_team_id |-> 1, away_team_id |-> 2, home_score |-> 2, away_score |-> 1, created_at |-> T1],
     [home_team_id |-> 2, away_team_id |-> 1, home_score |-> 1, away_score |-> 1, created_at |-> T2],
     [home_team_id |-> 2, away_team_id |-> 1, home_score |-> 3, away_score |-> 1, created_at |-> T1],
     [home_team_id |-> 1, away_team_id |-> 2, home_score |-> 0, away_score |-> 2, created_at |-> T2] >>

LongGames ==
  { [home_team_id |-> 1, away_team_id |-> 2, home_score |-> 2, away_score |-> 1, created_at |-> T1],
    [home_team_id |-> 1, away_team_id |-> 2, home_score |-> 1, away_score |-> 1, created_at |-> T2],
    [home_team_id |-> 1, away_team_id |-> 2, home_score |-> 1, away_score |-> NaN, created_at |-> T1] }

\* the first rows of every long table: five scored games between teams 1 and 2
LongOpening ==
  << [home_team_id |-> 1, away_team_id |-> 2, home_score |-> 2, away_score |-> 1, created_at |-> T1],
     [home_team_id |-> 2, away_team_id |-> 1, home_score |-> 3, away_score |-> 0, created_at |-> T2],
     [home_team_id |-> 1, away_team_id |-> 2, home_score |-> 1, away_score |-> 1, created_at |-> T1],
     [home_team_id |-> 2, away_team_id |-> 1, home_score |-> 0, away_score |-> 2, created_at |-> T1],
     [home_team_id |-> 1, away_team_id |-> 2, home_score |-> 2, away_score |-> 0, created_at |-> T2] >>

AllGames ==
  ShortGames \cup DeepGames \cup LongGames
    \cup { DeepOpening[i] : i \in 1..Len(DeepOpening) }
    \cup { LongOpening[i] : i \in 1..Len(LongOpening) }

Row(g, i) == [id |-> i] @@ g

\* df has at most max rows, starts like opening and continues with rows of S
InFamily(df, opening, S, max) ==
  /\ Len(df) <= max
  /\ \A i \in 1..Len(df) :
       IF i <= Len(opening) THEN df[i] = Row(opening[i], i)
       ELSE \E g \in S : df[i] = Row(g, i)

AllowedInput(df) ==
  \/ InFamily(df, <<>>, ShortGames, MaxShort)
  \/ InFamily(df, DeepOpening, DeepGames, MaxDeep)
  \/ InFamily(df, LongOpening, LongGames, MaxLong)

(***************************************************************************)
(* Auxiliary tables.  Every table has its columns; a table may be empty.   *)
(***************************************************************************)
EmptyTables ==
  [stats_df |-> <<>>, injuries_df |-> <<>>, weather_df |-> <<>>, sentiment_df |-> <<>>]

SomeTables ==
  [stats_df |-> << [game_id |-> 8, points |-> 30], [game_id |-> 8, points |-> 12],
                   [game_id |-> 2, points |-> 7] >>,
   injuries_df |-> << [team_id |-> 1, severity |-> 2], [team_id |-> 1, severity |-> NaN],
                      [team_id |-> 2, severity |-> 1], [team_id |-> 2, severity |-> 1],
                      [team_id |-> 2, severity |-> 3], [team_id |-> 2, severity |-> 1],
                      [team_id |-> 2, severity |-> 2], [team_id |-> 2, severity |-> 2],
                      [team_id |-> 2, severity |-> 1] >>,
   weather_df |-> << [game_id |-> 6, temperature |-> 55, wind_speed |-> 12],
                     [game_id |-> NaN, temperature |-> 90, wind_speed |-> 0],
                     [game_id |-> 7, temperature |-> 64, wind_speed |-> 3],
                     [game_id |-> 6, temperature |-> 58, wind_speed |-> 9] >>,
   sentiment_df |-> << [team_id |-> 1, sentiment_score |-> 1],
                       [team_id |-> 1, sentiment_score |-> -2] >>]

TableBundles == {EmptyTables, SomeTables}

(***************************************************************************)
(* Arithmetic helpers.                                                     *)
(***************************************************************************)
RECURSIVE SumSeq(_)
SumSeq(s) == IF s = <<>> THEN 0 ELSE s[1] + SumSeq(Tail(s))

RECURSIVE SumOver(_, _)
SumOver(S, f) ==
  IF S = {} THEN 0
  ELSE LET x == CHOOSE y \in S : TRUE IN f[x] + SumOver(S \ {x}, f)

Max(S) == CHOOSE x \in S : \A y \in S : y <= x

Div(n, d) == <<n, d>>

RatEq(a, b) == a[1] * b[2] = b[1] * a[2]

\* a <= b for fractions with positive denominators
RatLeq(a, b) == a[1] * b[2] <= b[1] * a[2]

\* list[-n:]
LastN(s, n) == IF Len(s) > n THEN SubSeq(s, Len(s) - n + 1, Len(s)) ELSE s

\* np.mean of a non-empty list
Mean(s) == Div(SumSeq(s), Len(s))

tanh(x) == <<x[1], x[2], "tanh">>

(***************************************************************************)
(* Lookup tables built before the game loop.                               *)
(***************************************************************************)
RowsWith(df, col, key) == { i \in 1..Len(df) : df[i][col] = key }

Keys(df, col) == { df[i][col] : i \in 1..Len(df) } \ {NaN}

\* stats_df.groupby('game_id').agg({... 'points': ['mean', 'sum', 'max'] ...}).to_dict('index')
GroupStats(df) ==
  [gid \in Keys(df, "game_id") |->
     LET rows == RowsWith(df, "game_id", gid)
         pts == [i \in rows |-> df[i].points]
     IN [points_mean |-> Div(SumOver(rows, pts), Cardinality(rows)),
         points_sum |-> SumOver(rows, pts),
         points_max |-> Max({ pts[i] : i \in rows })]]

StatsByGameFull(df) == IF Len(df) > 0 THEN GroupStats(df) ELSE << >>

StatsByGameBasic(df) == GroupStats(df)

\* injuries_df.groupby('team_id').size().to_dict()
InjuriesByTeamFull(df) ==
  IF Len(df) > 0
  THEN [t \in Keys(df, "team_id") |-> Cardinality(RowsWith(df, "team_id", t))]
  ELSE << >>

\* injuries_df.groupby('team_id')['severity'].count().to_dict(): count() leaves out missing values
InjuriesByTeamBasic(df) ==
  [t \in Keys(df, "team_id") |->
     Cardinality({ i \in RowsWith(df, "team_id", t) : notna(df[i].severity) })]

\* a later row of the same game replaces an earlier one
LastRowOf(df, gid) == df[Max(RowsWith(df, "game_id", gid))]

WeatherByGameFull(df) ==
  IF Len(df) > 0 THEN [gid \in Keys(df, "game_id") |-> LastRowOf(df, gid)] ELSE << >>

\* {w['game_id']: w for w in weather_df if w.get('game_id')}
WeatherByGameBasic(df) ==
  [gid \in Keys(df, "game_id") \ {0} |-> LastRowOf(df, gid)]

\* sentiment_df.groupby('team_id')['sentiment_score'].mean().to_dict()
GroupSentiment(df) ==
  [t \in Keys(df, "team_id") |->
     LET rows == RowsWith(df, "team_id", t)
     IN Div(SumOver(rows, [i \in rows |-> df[i].sentiment_score]), Cardinality(rows))]

SentimentByTeamFull(df) == IF Len(df) > 0 THEN GroupSentiment(df) ELSE << >>

SentimentByTeamBasic(df) == GroupSentiment(df)

\* dict.get(key, default)
Get(d, key, default) == IF key \in DOMAIN d THEN d[key] ELSE default

(***************************************************************************)
(* Team-state store.                                                       *)
(***************************************************************************)
NewStatsFull ==
  [games |-> 0, wins |-> 0, losses |-> 0, points_for |-> 0, points_against |-> 0,
   recent_form |-> <<>>, home_games |-> 0, home_wins |-> 0, away_games |-> 0,
   away_wins |-> 0, streak |-> 0, rest_days |-> 0]

NewStatsBasic ==
  [games |-> 0, wins |-> 0, losses |-> 0, points_for |-> 0, points_against |-> 0,
   recent_form |-> <<>>]

\* for team_id in [home_id, away_id]: if team_id not in team_stats: team_stats[team_id] = {...}
EnsureTeams(ts, new, game) ==
  [t \in DOMAIN ts \cup {game.home_team_id, game.away_team_id} |->
     IF t \in DOMAIN ts THEN ts[t] ELSE new]

HasScores_either(game) == notna(game.home_score) \/ notna(game.away_score)

\* pd.notna(game['home_score']) and pd.notna(game['away_score'])
HasScores(game) == notna(game.home_score) /\ notna(game.away_score)

HomeWon_geq(game) == game.home_score >= game.away_score

HomeWon(game) == game.home_score > game.away_score

Label_geq(game) == IF game.home_score >= game.away_score THEN 1 ELSE 0

\* 1 if game['home_score'] > game['away_score'] else 0
Label(game) == IF game.home_score > game.away_score THEN 1 ELSE 0

WarmFull_either(ts, game) ==
  ts[game.home_team_id].games >= MinGames \/ ts[game.away_team_id].games >= MinGames

WarmFull_home(ts, game) == ts[game.home_team_id].games >= MinGames

\* home_stats['games'] >= 5 and away_stats['games'] >= 5
WarmFull(ts, game) ==
  ts[game.home_team_id].games >= MinGames /\ ts[game.away_team_id].games >= MinGames

\* home_stats['games'] < 5 or away_stats['games'] < 5
ColdBasic(ts, game) ==
  ts[game.home_team_id].games < MinGames \/ ts[game.away_team_id].games < MinGames

\* one statement  team_stats[t][f] += n
Add(ts, t, f, n) == [ts EXCEPT ![t][f] = @ + n]

\* one statement  team_stats[t]['recent_form'].append(x)
Push(ts, t, x) == [ts EXCEPT ![t].recent_form = Append(@, x)]

Trim_eleven(ts, t) == [ts EXCEPT ![t].recent_form = LastN(@, FormWindow + 1)]

Trim_first(ts, t) == [ts EXCEPT ![t].recent_form = SubSeq(@, 1, IF Len(@) < FormWindow THEN Len(@) ELSE FormWindow)]

\* one statement  s['recent_form'] = s['recent_form'][-10:]
Trim(ts, t) == [ts EXCEPT ![t].recent_form = LastN(@, FormWindow)]

\* s['streak'] = s['streak'] + 1 if s['streak'] > 0 else 1
StreakWin(ts, t) == [ts EXCEPT ![t].streak = IF @ > 0 THEN @ + 1 ELSE 1]

StreakLoss_on(ts, t) == [ts EXCEPT ![t].streak = @ - 1]

\* s['streak'] = -1 if s['streak'] > 0 else s['streak'] - 1
StreakLoss(ts, t) == [ts EXCEPT ![t].streak = IF @ > 0 THEN -1 ELSE @ - 1]

CountersFull_paste(ts, game) ==
  LET h == game.home_team_id
      a == game.away_team_id
      s1 == Add(ts, h, "games", 1)
      s2 == Add(s1, a, "games", 1)
      s3 == Add(s2, h, "points_for", game.home_score)
      s4 == Add(s3, h, "points_against", game.away_score)
      s5 == Add(s4, a, "points_for", game.away_score)
      s6 == Add(s5, a, "points_against", game.away_score)
      s7 == Add(s6, h, "home_games", 1)
  IN Add(s7, a, "away_games", 1)

\* full: home_stats['games'] += 1 ... away_stats['points_against'] += game['home_score']
CountersFull(ts, game) ==
  LET h == game.home_team_id
      a == game.away_team_id
      s1 == Add(ts, h, "games", 1)
      s2 == Add(s1, a, "games", 1)
      s3 == Add(s2, h, "points_for", game.home_score)
      s4 == Add(s3, h, "points_against", game.away_score)
      s5 == Add(s4, a, "points_for", game.away_score)
      s6 == Add(s5, a, "points_against", game.home_score)
      s7 == Add(s6, h, "home_games", 1)
  IN Add(s7, a, "away_games", 1)

\* full: the branch taken when home_won
WonFull(ts, h, a) ==
  LET w1 == Add(ts, h, "wins", 1)
      w2 == Add(w1, a, "losses", 1)
      w3 == Add(w2, h, "home_wins", 1)
      w4 == Push(w3, h, 1)
      w5 == Push(w4, a, 0)
      w6 == StreakWin(w5, h)
  IN StreakLoss(w6, a)

\* full: the else branch
LostFull(ts, h, a) ==
  LET l1 == Add(ts, h, "losses", 1)
      l2 == Add(l1, a, "wins", 1)
      l3 == Add(l2, a, "away_wins", 1)
      l4 == Push(l3, h, 0)
      l5 == Push(l4, a, 1)
      l6 == StreakLoss(l5, h)
  IN StreakWin(l6, a)

OutcomeFull_draw(ts, game) ==
  IF game.home_score > game.away_score
  THEN WonFull(ts, game.home_team_id, game.away_team_id)
  ELSE IF game.home_score < game.away_score
       THEN LostFull(ts, game.home_team_id, game.away_team_id)
       ELSE ts

\* full: if home_won: ... else: ...
OutcomeFull(ts, game) ==
  IF HomeWon(game)
  THEN WonFull(ts, game.home_team_id, game.away_team_id)
  ELSE LostFull(ts, game.home_team_id, game.away_team_id)

\* full: keep only last 10 games for form
TrimFull(ts, game) == Trim(Trim(ts, game.home_team_id), game.away_team_id)

UpdateFull(ts, game) == TrimFull(OutcomeFull(CountersFull(ts, game), game), game)

\* basic, the copy in the warm-up branch
UpdateBasicWarmup(ts, game) ==
  LET h == game.home_team_id
      a == game.away_team_id
      s1 == Add(ts, h, "games", 1)
      s2 == Add(s1, a, "games", 1)
      s3 == Add(s2, h, "points_for", game.home_score)
      s4 == Add(s3, h, "points_against", game.away_score)
      s5 == Add(s4, a, "points_for", game.away_score)
      s6 == Add(s5, a, "points_against", game.home_score)
      won == Push(Push(Add(Add(s6, h, "wins", 1), a, "losses", 1), h, 1), a, 0)
      lost == Push(Push(Add(Add(s6, h, "losses", 1), a, "wins", 1), h, 0), a, 1)
  IN Trim(Trim(IF HomeWon(game) THEN won ELSE lost, h), a)

\* basic, the copy after the emission
UpdateBasicEmit(ts, game) ==
  LET h == game.home_team_id
      a == game.away_team_id
      s1 == Add(ts, h, "games", 1)
      s2 == Add(s1, a, "games", 1)
      s3 == Add(s2, h, "points_for", game.home_score)
      s4 == Add(s3, h, "points_against", game.away_score)
      s5 == Add(s4, a, "points_for", game.away_score)
      s6 == Add(s5, a, "points_against", game.home_score)
      won == Push(Push(Add(Add(s6, h, "wins", 1), a, "losses", 1), h, 1), a, 0)
      lost == Push(Push(Add(Add(s6, h, "losses", 1), a, "wins", 1), h, 0), a, 1)
  IN Trim(Trim(IF HomeWon(game) THEN won ELSE lost, h), a)

(***************************************************************************)
(* Feature vectors (23 entries).                                           *)
(***************************************************************************)
RatSub(a, b) == <<a[1] * b[2] - b[1] * a[2], a[2] * b[2]>>

RatOver(a, k) == <<a[1], a[2] * k>>

RatMin(a, b) == IF RatLeq(a, b) THEN a ELSE b

Half == Div(1, 2)

RecentFull_four(form) ==
  LET recent == IF Len(form) >= RecentWindow THEN LastN(form, 4) ELSE form
  IN IF recent # <<>> THEN Mean(recent) ELSE Half

\* x[-5:] if len(x) >= 5 else x;  np.mean(...) if ... else 0.5
RecentFull(form) ==
  LET recent == IF Len(form) >= RecentWindow THEN LastN(form, RecentWindow) ELSE form
  IN IF recent # <<>> THEN Mean(recent) ELSE Half

\* np.mean(x[-5:]) if x else 0.5
RecentBasic(form) == IF form # <<>> THEN Mean(LastN(form, RecentWindow)) ELSE Half

\* features 1-11, the same expressions in both programs except for the recent form
Rolling(hs, as, hrecent, arecent) ==
  << Div(hs.wins, hs.games),
     Div(as.wins, as.games),
     Div(hs.points_for, hs.games),
     Div(as.points_for, as.games),
     Div(hs.points_against, hs.games),
     Div(as.points_against, as.games),
     hrecent,
     arecent,
     RatSub(Div(hs.wins, hs.games), Div(as.wins, as.games)),
     Div(hs.points_for - hs.points_against, hs.games),
     Div(as.points_for - as.points_against, as.games) >>

TimeFeatures(game) ==
  << Div(game.created_at.hour, 24), Div(game.created_at.dayofweek, 7),
     Div(game.created_at.month, 12) >>

FeaturesFull(p, game) ==
  LET h == game.home_team_id
      a == game.away_team_id
      hs == p.team_stats[h]
      as == p.team_stats[a]
      player ==
        IF game.id \in DOMAIN p.stats_by_game
        THEN << RatOver(p.stats_by_game[game.id].points_mean, 20),
                Div(p.stats_by_game[game.id].points_sum, 200) >>
        ELSE << Div(0, 1), Div(0, 1) >>
      injuries ==
        << RatMin(Div(Get(p.injuries_by_team, h, 0), 5), Div(1, 1)),
           RatMin(Div(Get(p.injuries_by_team, a, 0), 5), Div(1, 1)) >>
      weather ==
        IF game.id \in DOMAIN p.weather_by_game
        THEN << Div(p.weather_by_game[game.id].temperature, 100),
                Div(p.weather_by_game[game.id].wind_speed, 30) >>
        ELSE << Div(72, 100), Div(5, 30) >>
      sentiment ==
        << tanh(Get(p.sentiment_by_team, h, Div(0, 1))),
           tanh(Get(p.sentiment_by_team, a, Div(0, 1))) >>
  IN Rolling(hs, as, RecentFull(hs.recent_form), RecentFull(as.recent_form))
       \o player \o injuries \o weather \o sentiment \o TimeFeatures(game) \o << Div(1, 1) >>

\* stats_by_game.get(id, {}).get(('points', 'mean'), (0,))[0]: the value stored under
\* ('points', 'mean') is a number, and subscripting it raises (TypeError for a float,
\* IndexError for a numpy scalar); the program state "SubscriptError" stands for both
RaisesBasic(p, game) == game.id \in DOMAIN p.stats_by_game

\* the list built when no entry of it raises
FeaturesBasic(p, game) ==
  LET h == game.home_team_id
      a == game.away_team_id
      hs == p.team_stats[h]
      as == p.team_stats[a]
      weather ==
        IF game.id \in DOMAIN p.weather_by_game
        THEN << Div(p.weather_by_game[game.id].temperature, 100),
                Div(p.weather_by_game[game.id].wind_speed, 30) >>
        ELSE << Div(72, 100), Div(17, 100) >>
  IN Rolling(hs, as, RecentBasic(hs.recent_form), RecentBasic(as.recent_form))
       \o << Div(0, 1), Div(0, 1) >>
       \o << Div(Get(p.injuries_by_team, h, 0), 1), Div(Get(p.injuries_by_team, a, 0), 1) >>
       \o weather
       \o << Get(p.sentiment_by_team, h, Div(0, 1)), Get(p.sentiment_by_team, a, Div(0, 1)) >>
       \o TimeFeatures(game) \o << Div(1, 1) >>

(***************************************************************************)
(* One iteration of the game loop, as a function of the program state.     *)
(***************************************************************************)
EmitFull_leak(p, game) ==
  [p EXCEPT !.features =
              Append(@, FeaturesFull([p EXCEPT !.team_stats = UpdateFull(@, game)], game)),
            !.labels = Append(@, Label(game))]

EmitFull_front(p, game) ==
  [p EXCEPT !.features = <<FeaturesFull(p, game)>> \o @,
            !.labels = Append(@, Label(game))]

\* features.append(game_features); labels.append(...)
EmitFull(p, game) ==
  [p EXCEPT !.features = Append(@, FeaturesFull(p, game)),
            !.labels = Append(@, Label(game))]

BodyFull_skip(p, game) ==
  LET ts == EnsureTeams(p.team_stats, NewStatsFull, game)
      q == [p EXCEPT !.team_stats = ts, !.idx = @ + 1]
  IN IF HasScores(game) /\ WarmFull(ts, game)
     THEN [EmitFull(q, game) EXCEPT !.team_stats = UpdateFull(ts, game)]
     ELSE q

BodyFull(p, game) ==
  LET ts == EnsureTeams(p.team_stats, NewStatsFull, game)
      q == [p EXCEPT !.team_stats = ts, !.idx = @ + 1]
  IN IF HasScores(game)
     THEN LET e == IF WarmFull(ts, game) THEN EmitFull(q, game) ELSE q
          IN [e EXCEPT !.team_stats = UpdateFull(ts, game)]
     ELSE q

BodyBasic(p, game) ==
  LET ts == EnsureTeams(p.team_stats, NewStatsBasic, game)
      q == [p EXCEPT !.team_stats = ts, !.idx = @ + 1]
  IN IF HasScores(game)
     THEN IF ColdBasic(ts, game)
          THEN [q EXCEPT !.team_stats = UpdateBasicWarmup(ts, game)]
          ELSE IF RaisesBasic(q, game)
               THEN [p EXCEPT !.team_stats = ts, !.pc = "SubscriptError"]
               ELSE [q EXCEPT !.features = Append(@, FeaturesBasic(q, game)),
                              !.labels = Append(@, Label(game)),
                              !.team_stats = UpdateBasicEmit(ts, game)]
     ELSE q

EnterFull_keep(p, t) ==
  [p EXCEPT !.features = <<>>, !.labels = <<>>,
            !.stats_by_game = StatsByGameFull(t.stats_df),
            !.injuries_by_team = InjuriesByTeamFull(t.injuries_df),
            !.weather_by_game = WeatherByGameFull(t.weather_df),
            !.sentiment_by_team = SentimentByTeamFull(t.sentiment_df),
            !.idx = 0, !.pc = "loop"]

\* entry of engineer_features: empty result lists, lookups, empty store
EnterFull(p, t) ==
  [p EXCEPT !.features = <<>>, !.labels = <<>>,
            !.stats_by_game = StatsByGameFull(t.stats_df),
            !.injuries_by_team = InjuriesByTeamFull(t.injuries_df),
            !.weather_by_game = WeatherByGameFull(t.weather_df),
            !.sentiment_by_team = SentimentByTeamFull(t.sentiment_df),
            !.team_stats = << >>, !.idx = 0, !.pc = "loop"]

EnterBasic(p, t) ==
  [p EXCEPT !.features = <<>>, !.labels = <<>>,
            !.stats_by_game = StatsByGameBasic(t.stats_df),
            !.injuries_by_team = InjuriesByTeamBasic(t.injuries_df),
            !.weather_by_game = WeatherByGameBasic(t.weather_df),
            !.sentiment_by_team = SentimentByTeamBasic(t.sentiment_df),
            !.team_stats = << >>, !.idx = 0, !.pc = "loop"]

RECURSIVE LoopFull(_, _)
LoopFull(p, df) == IF df = <<>> THEN p ELSE LoopFull(BodyFull(p, Head(df)), Tail(df))

\* a whole call of engineer_features on the tables, made from program state p
CallFull(p, t, df) == LoopFull(EnterFull(p, t), df)

(***************************************************************************)
(* State.                                                                  *)
(***************************************************************************)
VARIABLES
  tables,    \* the four auxiliary tables handed to the pipeline
  games_df,  \* the rows of the games table read so far
  full,      \* the state of process_data / engineer_features (full program)
  basic,     \* the state of the basic program
  again      \* the result of a second call of engineer_features on the same tables

vars == <<tables, games_df, full, basic, again>>

NoProgram ==
  [pc |-> "start", idx |-> 0, out |-> <<>>, features |-> <<>>, labels |-> <<>>,
   stats_by_game |-> << >>, injuries_by_team |-> << >>, weather_by_game |-> << >>,
   sentiment_by_team |-> << >>, team_stats |-> << >>,
   sizes |-> [train |-> 0, val |-> 0, test |-> 0]]

NoRun == [ran |-> FALSE, features |-> <<>>, labels |-> <<>>, team_stats |-> << >>]

Init ==
  /\ tables \in TableBundles
  /\ games_df = <<>>
  /\ full = NoProgram
  /\ basic = NoProgram
  /\ again = NoRun

\* process_data prints the row counts and calls engineer_features;
\* the basic script prints its banner and calls engineer_features
Start ==
  /\ full.pc = "start"
  /\ full' = EnterFull([full EXCEPT !.out = @ \o <<"engineering", "games", "player_stats",
                                                 "injuries", "weather", "sentiment">>], tables)
  /\ basic' = EnterBasic([basic EXCEPT !.out = Append(@, "engineering")], tables)
  /\ UNCHANGED <<tables, games_df, again>>

\* one row of games_df.iterrows() in both programs
ProcessGame(g) ==
  /\ full.pc = "loop"
  /\ LET game == Row(g, Len(games_df) + 1) IN
       /\ AllowedInput(Append(games_df, game))
       /\ games_df' = Append(games_df, game)
       /\ full' = BodyFull(full, game)
       /\ basic' = IF basic.pc = "loop" THEN BodyBasic(basic, game) ELSE basic
  /\ UNCHANGED <<tables, again>>

\* print(Created ...) and, in process_data, the empty-result check
ReportFull(p) ==
  LET q == [p EXCEPT !.out = Append(@, "created")]
  IN IF Len(p.features) = 0 THEN [q EXCEPT !.pc = "ValueError"] ELSE [q EXCEPT !.pc = "split"]

\* print(... len(X[0]) ...): X[0] of an empty array raises before anything is printed
ReportBasic(p) ==
  IF Len(p.features) = 0 THEN [p EXCEPT !.pc = "IndexError"]
  ELSE [p EXCEPT !.out = Append(@, "created"), !.pc = "split"]

\* the games table is exhausted: engineer_features returns np.array(features),
\* np.array(labels) and the caller reports the result
Report ==
  /\ full.pc = "loop"
  /\ full' = ReportFull(full)
  /\ basic' = IF basic.pc = "loop" THEN ReportBasic(basic) ELSE basic
  /\ UNCHANGED <<tables, games_df, again>>

\* test_size of the first and of the second train_test_split call, as fractions
TestSize1 == <<3, 10>>

TestSize2_same == <<3, 10>>

TestSize2 == <<1, 2>>

\* ceil(n * test_size): the size of the held-out part
NTest(n, ts) == (n * ts[1] + ts[2] - 1) \div ts[2]

\* the class counts of the label vector y (stratify=y)
ClassCounts(y) == [c \in {0, 1} |-> Cardinality({ i \in 1..Len(y) : y[i] = c })]

Classes(cc) == { c \in {0, 1} : cc[c] > 0 }

\* the conditions under which one stratified train_test_split call raises ValueError
SplitRaises(cc, ts) ==
  LET n == cc[0] + cc[1]
      n_test == NTest(n, ts)
      n_train == n - n_test
      k == Cardinality(Classes(cc))
  IN \/ n_train = 0
     \/ \E c \in Classes(cc) : cc[c] < 2
     \/ n_train < k
     \/ n_test < k

\* the per-class sizes of the train part: the proportional share rounded down, the
\* members still missing given to the classes with the largest remainders, a tie
\* between them broken by the random state
TrainAllocations(cc, n_train) ==
  LET n == cc[0] + cc[1]
      floored == [c \in {0, 1} |-> (cc[c] * n_train) \div n]
      remainder == [c \in {0, 1} |-> (cc[c] * n_train) % n]
  IN { a \in [{0, 1} -> 0..n_train] :
         /\ a[0] + a[1] = n_train
         /\ \A c \in {0, 1} : a[c] \in {floored[c], floored[c] + 1}
         /\ \A c, d \in {0, 1} :
              (a[c] = floored[c] + 1 /\ a[d] = floored[d]) => remainder[c] >= remainder[d] }

Raised == [ok |-> FALSE, train |-> 0, val |-> 0, test |-> 0]

\* X_train, X_temp = train_test_split(X, y, test_size=0.3, ...);
\* X_val, X_test = train_test_split(X_temp, y_temp, test_size=0.5, ...)
SplitOutcomes(y) ==
  LET cc == ClassCounts(y)
      n == Len(y)
      n_temp == NTest(n, TestSize1)
      n_test == NTest(n_temp, TestSize2)
  IN IF SplitRaises(cc, TestSize1) THEN {Raised}
     ELSE { IF SplitRaises([c \in {0, 1} |-> cc[c] - a[c]], TestSize2) THEN Raised
            ELSE [ok |-> TRUE, train |-> n - n_temp, val |-> n_temp - n_test, test |-> n_test] :
            a \in TrainAllocations(cc, n - n_temp) }

\* the two train_test_split calls: either both return or one raises.  The outcome
\* depends on y, test_size and random_state only, which both programs pass alike.
SplitStep(p, o) ==
  [p EXCEPT !.pc = IF o.ok THEN "scale" ELSE "SplitError",
            !.sizes = [train |-> o.train, val |-> o.val, test |-> o.test]]

Split ==
  /\ full.pc = "split"
  /\ \E o \in SplitOutcomes(full.labels) :
       /\ full' = SplitStep(full, o)
       /\ basic' = IF basic.pc = "split" /\ basic.labels = full.labels
                   THEN SplitStep(basic, o)
                   ELSE IF basic.pc = "split"
                        THEN SplitStep(basic, CHOOSE b \in SplitOutcomes(basic.labels) : TRUE)
                        ELSE basic
  /\ UNCHANGED <<tables, games_df, again>>

\* StandardScaler, the final print and the return
Finish(p) == IF p.pc = "scale" THEN [p EXCEPT !.out = Append(@, "sizes"), !.pc = "returned"] ELSE p

Scale ==
  /\ full.pc = "scale"
  /\ full' = Finish(full)
  /\ basic' = Finish(basic)
  /\ UNCHANGED <<tables, games_df, again>>

Ended(p) == p.pc \in {"returned", "ValueError", "IndexError", "SubscriptError", "SplitError"}

\* engineer_features is called a second time on the same tables
RunAgain ==
  /\ Ended(full) /\ Ended(basic)
  /\ ~again.ran
  /\ \E r \in {CallFull(full, tables, games_df)} :
       again' = [ran |-> TRUE, features |-> r.features, labels |-> r.labels,
                 team_stats |-> r.team_stats]
  /\ UNCHANGED <<tables, games_df, full, basic>>

Next ==
  \/ Start
  \/ \E g \in AllGames : ProcessGame(g)
  \/ Report
  \/ Split
  \/ Scale
  \/ RunAgain

Spec == Init /\ [][Next]_vars

\* process_data after engineer_features has returned n samples: the split reads
\* len(X) and the label vector y only, here any y of up to MaxClass members per class
SplitInit ==
  /\ tables = EmptyTables
  /\ games_df = <<>>
  /\ again = NoRun
  /\ \E zeros \in 0..MaxClass, ones \in 0..MaxClass :
       /\ zeros + ones > 0
       /\ full = [NoProgram EXCEPT !.pc = "split",
                    !.labels = [i \in 1..(zeros + ones) |-> IF i <= zeros THEN 0 ELSE 1],
                    !.features = [i \in 1..(zeros + ones) |-> <<>>]]
       /\ basic = full

SplitNext == Split \/ Scale

SpecSplit == SplitInit /\ [][SplitNext]_vars

(***************************************************************************)
(* What the games table says, counted directly from its rows.              *)
(***************************************************************************)
Before(df, i) == SubSeq(df, 1, i - 1)

Plays(g, t) == t = g.home_team_id \/ t = g.away_team_id

Complete(g) == g.home_score # NaN /\ g.away_score # NaN

\* the rows of df with both scores present in which team t takes part
PlayedRows(df, t) == { i \in 1..Len(df) : Complete(df[i]) /\ Plays(df[i], t) }

PlayedCount(df, t) == Cardinality(PlayedRows(df, t))

\* team t's side of row g wins when its score is the strictly greater one at home,
\* and when the home score is not the greater one away
Outcome(g, t) ==
  IF t = g.home_team_id
  THEN (IF g.home_score > g.away_score THEN 1 ELSE 0)
  ELSE (IF g.home_score > g.away_score THEN 0 ELSE 1)

PointsOf(g, t) == IF t = g.home_team_id THEN g.home_score ELSE g.away_score

PointsAgainst(g, t) == IF t = g.home_team_id THEN g.away_score ELSE g.home_score

WinCount(df, t) == Cardinality({ i \in PlayedRows(df, t) : Outcome(df[i], t) = 1 })

PointsFor(df, t) == SumOver(PlayedRows(df, t), [i \in 1..Len(df) |-> PointsOf(df[i], t)])

PointsAllowed(df, t) == SumOver(PlayedRows(df, t), [i \in 1..Len(df) |-> PointsAgainst(df[i], t)])

\* team t's results in table order
RECURSIVE Results(_, _)
Results(df, t) ==
  IF df = <<>> THEN <<>>
  ELSE IF Complete(df[Len(df)]) /\ Plays(df[Len(df)], t)
       THEN Append(Results(SubSeq(df, 1, Len(df) - 1), t), Outcome(df[Len(df)], t))
       ELSE Results(SubSeq(df, 1, Len(df) - 1), t)

\* row i is one that must produce a pair: both scores present and both teams
\* with MinGames complete games among the rows before it
Qualifies(df, i) ==
  /\ Complete(df[i])
  /\ PlayedCount(Before(df, i), df[i].home_team_id) >= MinGames
  /\ PlayedCount(Before(df, i), df[i].away_team_id) >= MinGames

RECURSIVE QualifyingUpTo(_, _)
QualifyingUpTo(df, n) ==
  IF n = 0 THEN <<>>
  ELSE IF Qualifies(df, n) THEN Append(QualifyingUpTo(df, n - 1), n)
       ELSE QualifyingUpTo(df, n - 1)

\* the positions of the qualifying rows of df, ascending
QualifyingRows(df) == QualifyingUpTo(df, Len(df))

\* the rows a program has gone through completely
Done(p) == SubSeq(games_df, 1, p.idx)

Programs == {full, basic}

StatsOf(ts, t, new) == IF t \in DOMAIN ts THEN ts[t] ELSE new

\* the row handled by a ProcessGame step, seen from the step
StepGame == games_df'[Len(games_df')]

Stepped == Len(games_df') = Len(games_df) + 1

Emitted(p, q) == Len(q.features) # Len(p.features) \/ Len(q.labels) # Len(p.labels)

(***************************************************************************)
(* C1: after every processed prefix of the games table, every team in the  *)
(* team-state store of either program has wins + losses = games, also      *)
(* after rows gated by the warm-up and rows skipped for a missing score.    *)
(***************************************************************************)
C1_WinsPlusLosses ==
  \A p \in Programs : \A t \in DOMAIN p.team_stats :
    p.team_stats[t].wins + p.team_stats[t].losses = p.team_stats[t].games

C1_Witness ==
  /\ \E i \in 1..Len(games_df) : ~Complete(games_df[i])
  /\ Len(full.features) >= 1 /\ Len(basic.features) >= 1
  /\ \A p \in Programs : \E t \in DOMAIN p.team_stats :
       p.team_stats[t].games >= MinGames + 1 /\ p.team_stats[t].wins >= 1
         /\ p.team_stats[t].losses >= 1

(***************************************************************************)
(* C2: a step adds a (vector, label) pair only if both teams of its row    *)
(* have games >= 5 in the store as it is before the step.                  *)
(***************************************************************************)
WarmBefore(p, g) ==
  /\ StatsOf(p.team_stats, g.home_team_id, NewStatsBasic).games >= MinGames
  /\ StatsOf(p.team_stats, g.away_team_id, NewStatsBasic).games >= MinGames

C2_GateOnPreState ==
  [][ /\ Emitted(full, full') => (Stepped /\ WarmBefore(full, StepGame))
      /\ Emitted(basic, basic') => (Stepped /\ WarmBefore(basic, StepGame)) ]_vars

\* the first pair is produced by the sixth row, both teams at exactly five games before it
C2_Witness ==
  /\ Len(games_df) = MinGames + 1
  /\ Len(full.features) = 1 /\ Len(basic.features) = 1
  /\ \A t \in {games_df[Len(games_df)].home_team_id, games_df[Len(games_df)].away_team_id} :
       PlayedCount(Before(games_df, Len(games_df)), t) = MinGames

(***************************************************************************)
(* C3: the rolling features (entries 1-11) of the vector produced for row  *)
(* N are those of the complete rows before N in table order: row N-1 is    *)
(* counted, row N itself is not.                                           *)
(***************************************************************************)
\* what the complete rows of df say about team t
Tally(df, t) ==
  [games |-> PlayedCount(df, t), wins |-> WinCount(df, t),
   points_for |-> PointsFor(df, t), points_against |-> PointsAllowed(df, t),
   last |-> LastN(Results(df, t), RecentWindow)]

RecentOf(last) == IF last = <<>> THEN Half ELSE Div(SumSeq(last), Len(last))

RollingFrom(H, A) ==
  << Div(H.wins, H.games),
     Div(A.wins, A.games),
     Div(H.points_for, H.games),
     Div(A.points_for, A.games),
     Div(H.points_against, H.games),
     Div(A.points_against, A.games),
     RecentOf(H.last),
     RecentOf(A.last),
     Div(H.wins * A.games - A.wins * H.games, H.games * A.games),
     Div(H.points_for - H.points_against, H.games),
     Div(A.points_for - A.points_against, A.games) >>

RollingOf(df, h, a) == RollingFrom(Tally(df, h), Tally(df, a))

SameRolling(row, ref) == \A k \in 1..11 : row[k][2] # 0 /\ RatEq(row[k], ref[k])

NewRowFromPast(p, q, ref) ==
  Len(q.features) = Len(p.features) + 1 => SameRolling(q.features[Len(q.features)], ref)

NewRowsFromPast(ref) == NewRowFromPast(full, full', ref) /\ NewRowFromPast(basic, basic', ref)

C3_FeaturesFromPriorGames ==
  [][ Stepped =>
        NewRowsFromPast(RollingOf(games_df, StepGame.home_team_id, StepGame.away_team_id)) ]_vars

\* a pair was produced right after a row that itself produced a pair
C3_Witness ==
  /\ Len(full.features) >= 2 /\ Len(basic.features) >= 2
  /\ Len(games_df) >= 2
  /\ Qualifies(games_df, Len(games_df)) /\ Qualifies(games_df, Len(games_df) - 1)

(***************************************************************************)
(* C4: a row with a missing home or away score adds no pair and leaves     *)
(* every existing team entry as it was; the only change to the store is    *)
(* all-zero entries for the row's teams not seen before.                   *)
(***************************************************************************)
AllZero(st) == \A f \in DOMAIN st : IF f = "recent_form" THEN st[f] = <<>> ELSE st[f] = 0

SkippedCleanly(p, q) ==
  /\ q.features = p.features
  /\ q.labels = p.labels
  /\ DOMAIN p.team_stats \subseteq DOMAIN q.team_stats
  /\ \A t \in DOMAIN q.team_stats :
       IF t \in DOMAIN p.team_stats THEN q.team_stats[t] = p.team_stats[t]
       ELSE Plays(StepGame, t) /\ AllZero(q.team_stats[t])

C4_MissingScoreSkips ==
  [][ (Stepped /\ ~Complete(StepGame)) =>
        (SkippedCleanly(full, full') /\ SkippedCleanly(basic, basic')) ]_vars

\* the last row read has a missing score and brought in a team not seen before
C4_Witness ==
  /\ Len(games_df) >= 2
  /\ ~Complete(games_df[Len(games_df)])
  /\ \A p \in Programs :
       /\ p.idx = Len(games_df)
       /\ \E t \in DOMAIN p.team_stats :
            Plays(games_df[Len(games_df)], t) /\ p.team_stats[t].games = 0
       /\ \E t \in DOMAIN p.team_stats : p.team_stats[t].games > 0

(***************************************************************************)
(* C5: the label of every produced pair is 1 exactly when the row's home   *)
(* score is strictly greater than its away score; equal scores give 0.     *)
(***************************************************************************)
NewLabelRight(p, q) ==
  Len(q.labels) # Len(p.labels) =>
    /\ Stepped
    /\ Len(q.labels) = Len(p.labels) + 1
    /\ q.labels[Len(q.labels)] \in {0, 1}
    /\ q.labels[Len(q.labels)] = 1 <=> StepGame.home_score > StepGame.away_score

C5_LabelIffHomeGreater ==
  [][ NewLabelRight(full, full') /\ NewLabelRight(basic, basic') ]_vars

\* the last row read has equal scores and produced a pair in both programs
C5_Witness ==
  /\ Len(games_df) >= 1
  /\ Qualifies(games_df, Len(games_df))
  /\ games_df[Len(games_df)].home_score = games_df[Len(games_df)].away_score
  /\ \A p \in Programs :
       /\ p.idx = Len(games_df)
       /\ Len(p.labels) >= 1
       /\ p.labels[Len(p.labels)] = 0

(***************************************************************************)
(* C6: whenever the pass has produced no pair, the pipeline ends with the  *)
(* empty-result error (ValueError "No features created") and does not      *)
(* return.                                                                 *)
(***************************************************************************)
PassOver(p) == p.pc \notin {"start", "loop"}

C6_EmptyResultError ==
  \A p \in Programs : (PassOver(p) /\ Len(p.features) = 0) => p.pc = "ValueError"

(***************************************************************************)
(* C7: for every team, games equals the number of rows gone through so far *)
(* that have both scores and the team as home or away team; rows gated by  *)
(* the warm-up count, rows with a missing score do not.                    *)
(***************************************************************************)
C7_GamesCountsCompleteRows ==
  \A p \in Programs :
    /\ \A i \in 1..p.idx : \A t \in {games_df[i].home_team_id, games_df[i].away_team_id} :
         t \in DOMAIN p.team_stats
    /\ \A t \in DOMAIN p.team_stats : p.team_stats[t].games = PlayedCount(Done(p), t)

\* a team with a skipped row, gated rows and rows that produced pairs behind it
C7_Witness ==
  \E t \in DOMAIN full.team_stats \cap DOMAIN basic.team_stats :
    /\ \E i \in 1..Len(games_df) : ~Complete(games_df[i]) /\ Plays(games_df[i], t)
    /\ full.team_stats[t].games >= MinGames + 2
    /\ basic.team_stats[t].games >= MinGames + 2

(***************************************************************************)
(* C8: every team's recent_form has at most 10 entries, each 0 or 1.       *)
(***************************************************************************)
C8_RecentFormBounded ==
  \A p \in Programs : \A t \in DOMAIN p.team_stats :
    /\ Len(p.team_stats[t].recent_form) <= 10
    /\ \A k \in 1..Len(p.team_stats[t].recent_form) : p.team_stats[t].recent_form[k] \in {0, 1}

\* a team with more complete games than the window holds
C8_Witness ==
  \A p \in Programs : \E t \in DOMAIN p.team_stats :
    p.team_stats[t].games >= 11 /\ Len(p.team_stats[t].recent_form) = 10

(***************************************************************************)
(* C9: rows and labels have the same length, and the k-th row and k-th     *)
(* label belong to the k-th row of the games table that has both scores    *)
(* and both teams at 5 or more complete games before it; every such row    *)
(* gives exactly one pair.                                                 *)
(***************************************************************************)
WeatherEntries(p, g) ==
  IF g.id \in DOMAIN p.weather_by_game
  THEN <<p.weather_by_game[g.id].temperature, 100>>
  ELSE <<72, 100>>

PairsFollowTable(p, q) ==
  /\ Len(p.features) = Len(q)
  /\ Len(p.labels) = Len(q)
  /\ \A k \in 1..Len(q) :
       /\ k <= Len(p.labels) /\ k <= Len(p.features)
       /\ p.labels[k] = Outcome(games_df[q[k]], games_df[q[k]].home_team_id)
       /\ p.features[k][16] = WeatherEntries(p, games_df[q[k]])
       /\ p.features[k][20] = <<games_df[q[k]].created_at.hour, 24>>
       /\ p.features[k][21] = <<games_df[q[k]].created_at.dayofweek, 7>>
       /\ p.features[k][22] = <<games_df[q[k]].created_at.month, 12>>

C9_PairsInTableOrder ==
  \A p \in Programs : PairsFollowTable(p, QualifyingRows(Done(p)))

\* two pairs with a skipped row between the rows that produced them
C9_Witness ==
  /\ \E i, j, k \in 1..Len(games_df) :
       i < j /\ j < k /\ Qualifies(games_df, i) /\ ~Complete(games_df[j]) /\ Qualifies(games_df, k)
  /\ \A p \in Programs : p.idx = Len(games_df) /\ Len(p.features) >= 2

SplitDone(p) == p.pc \in {"scale", "returned"}

C11_SplitSizes ==
  \A p \in Programs :
    SplitDone(p) =>
      /\ p.sizes.train + p.sizes.val + p.sizes.test = Len(p.features)
      /\ p.sizes.val - p.sizes.test \in {-1, 0, 1}

\* a split that succeeded with both classes present and an odd held-out part
C11_Witness ==
  /\ full.pc = "returned" /\ basic.pc = "returned"
  /\ ClassCounts(full.labels)[0] >= 4 /\ ClassCounts(full.labels)[1] >= 4
  /\ full.sizes.test = full.sizes.val + 1
  /\ full.sizes.train > full.sizes.test

(***************************************************************************)
(* C12: in the full program every team's streak is the signed length of    *)
(* the run of equal results that ends its scored games so far: positive    *)
(* for wins, negative for losses, 0 before its first scored game; so a win *)
(* after losses gives +1 and a loss after wins gives -1.                   *)
(***************************************************************************)
\* the length of the longest run of equal entries that ends r
TrailingRun(r) == Len(r) - Max({0} \cup { i \in 1..Len(r) : r[i] # r[Len(r)] })

SignedRun(r) == IF r = <<>> THEN 0 ELSE IF r[Len(r)] = 1 THEN TrailingRun(r) ELSE 0 - TrailingRun(r)

StreakRight(ts, df) == \A t \in DOMAIN ts : ts[t].streak = SignedRun(Results(df, t))

C12_StreakIsSignedRun == StreakRight(full.team_stats, Done(full))

\* one team has just won after two losses, another has just lost after two wins,
\* and a third result run is longer than one
C12_Witness ==
  /\ \E t \in DOMAIN full.team_stats :
       /\ full.team_stats[t].streak = 1
       /\ LastN(Results(Done(full), t), 3) = <<0, 0, 1>>
  /\ \E t \in DOMAIN full.team_stats :
       /\ full.team_stats[t].streak = -1
       /\ LastN(Results(Done(full), t), 3) = <<1, 1, 0>>
  /\ full.idx >= 8

(***************************************************************************)
(* C13: a scored row with equal scores is applied as an away win: the away *)
(* team's wins and the home team's losses go up by one, 1 is appended to   *)
(* the away team's recent_form and 0 to the home team's, and nothing else  *)
(* (no draw) is recorded.                                                  *)
(***************************************************************************)
TieAsAwayWin(p, q, new) ==
  (/\ Stepped
   /\ q.idx = p.idx + 1
   /\ Complete(StepGame)
   /\ StepGame.home_score = StepGame.away_score) =>
    LET h == StepGame.home_team_id
        a == StepGame.away_team_id
        hs == StatsOf(p.team_stats, h, new)
        as == StatsOf(p.team_stats, a, new)
        hq == q.team_stats[h]
        aq == q.team_stats[a]
    IN /\ aq.wins = as.wins + 1 /\ aq.losses = as.losses
       /\ hq.losses = hs.losses + 1 /\ hq.wins = hs.wins
       /\ aq.recent_form = LastN(Append(as.recent_form, 1), 10)
       /\ hq.recent_form = LastN(Append(hs.recent_form, 0), 10)

C13_TieIsAwayWin ==
  [][ TieAsAwayWin(full, full', NewStatsFull) /\ TieAsAwayWin(basic, basic', NewStatsBasic) ]_vars

\* the last row read is a tie that both programs applied, once under the warm-up
\* gate and once on a row that produced a pair
C13_Witness ==
  /\ Len(games_df) >= 2
  /\ \A p \in Programs : p.idx = Len(games_df) /\ Len(p.features) >= 1
  /\ Complete(games_df[Len(games_df)])
  /\ games_df[Len(games_df)].home_score = games_df[Len(games_df)].away_score
  /\ \E i \in 1..Len(games_df) - 1 :
       /\ ~Qualifies(games_df, i)
       /\ Complete(games_df[i])
       /\ games_df[i].home_score = games_df[i].away_score
  /\ \A p \in Programs :
       p.team_stats[games_df[Len(games_df)].away_team_id].recent_form[
         Len(p.team_stats[games_df[Len(games_df)].away_team_id].recent_form)] = 1

(***************************************************************************)
(* C14: every team's recent_form is its win/loss outcomes (1 a win, 0 a    *)
(* loss) in its most recent min(10, n) scored games, in the order of the   *)
(* games table, n being the number of its scored games so far.             *)
(***************************************************************************)
FormRight(ts, df) == \A t \in DOMAIN ts : ts[t].recent_form = LastN(Results(df, t), 10)

C14_RecentFormIsLastTen == \A p \in Programs : FormRight(p.team_stats, Done(p))

\* a team whose oldest outcome has been dropped, with wins and losses in the window
C14_Witness ==
  \A p \in Programs : \E t \in DOMAIN p.team_stats :
    /\ Len(Results(Done(p), t)) >= 11
    /\ p.team_stats[t].recent_form # SubSeq(Results(Done(p), t), 1, 10)
    /\ \E i, j \in 1..10 : p.team_stats[t].recent_form[i] # p.team_stats[t].recent_form[j]

(***************************************************************************)
(* C15: the recent-form feature of a team (the mean of the last at most 5  *)
(* entries of its recent_form, 0.5 when that is empty) is 0.5 if and only  *)
(* if its recent_form is empty.                                            *)
(***************************************************************************)
HalfIffEmpty(form, value) == RatEq(value, Half) <=> form = <<>>

HalfWhenEmptyOrEven(form, value) ==
  RatEq(value, Half) <=>
    \/ form = <<>>
    \/ Len(form) \in {2, 4} /\ Cardinality({ i \in 1..Len(form) : form[i] = 1 }) * 2 = Len(form)

InjuryRows(t) == { i \in 1..Len(tables.injuries_df) : tables.injuries_df[i].team_id = t }

Capped(t) == IF Cardinality(InjuryRows(t)) >= 5 THEN Div(1, 1) ELSE Div(Cardinality(InjuryRows(t)), 5)

NewRowInjuriesCapped(p, q) ==
  (Stepped /\ Len(q.features) = Len(p.features) + 1) =>
    LET row == q.features[Len(q.features)]
    IN /\ RatEq(row[14], Capped(StepGame.home_team_id))
       /\ RatEq(row[15], Capped(StepGame.away_team_id))
       /\ RatLeq(Div(0, 1), row[14]) /\ RatLeq(row[14], Div(1, 1))
       /\ RatLeq(Div(0, 1), row[15]) /\ RatLeq(row[15], Div(1, 1))

C16_InjuryFeaturesCapped ==
  [][ NewRowInjuriesCapped(full, full') /\ NewRowInjuriesCapped(basic, basic') ]_vars

(***************************************************************************)
(* C17: when the pass produced no pair, the run first reports the input    *)
(* row counts and the number of produced samples, then ends with the       *)
(* empty-result error, and never reaches the split or the scaling.         *)
(***************************************************************************)
Reported(p, tag) == \E i \in 1..Len(p.out) : p.out[i] = tag

EmptyRunReportsThenRaises(p) ==
  (PassOver(p) /\ Len(p.features) = 0) =>
    /\ p.pc = "ValueError"
    /\ \E i, j \in 1..Len(p.out) : i < j /\ p.out[i] = "games" /\ p.out[j] = "created"
    /\ ~Reported(p, "sizes")
    /\ p.sizes = NoProgram.sizes

C17_EmptyRunReportsThenRaises == EmptyRunReportsThenRaises(full) /\ EmptyRunReportsThenRaises(basic)

(***************************************************************************)
(* C18: every team always has len(recent_form) = min(games, 10); so in     *)
(* every produced row both recent-form entries are means over 5 entries    *)
(* (both teams held at least 5) and neither is the 0.5 default.            *)
(***************************************************************************)
FormLengthRight(ts) ==
  \A t \in DOMAIN ts :
    Len(ts[t].recent_form) = IF ts[t].games < 10 THEN ts[t].games ELSE 10

NoDefaultInRows(rows) ==
  \A k \in 1..Len(rows) : \A e \in {7, 8} :
    /\ rows[k][e][2] = 5
    /\ rows[k][e] # Half
    /\ ~RatEq(rows[k][e], Half)

C18_FormLengthAndNoDefault ==
  \A p \in Programs : FormLengthRight(p.team_stats) /\ NoDefaultInRows(p.features)

\* a pair was produced for two teams at exactly 5 games each, and a team of the
\* store has more than 10 games
C18_Witness ==
  \A p \in Programs :
    /\ Len(p.features) >= 1
    /\ \E i \in 1..p.idx :
         /\ Qualifies(games_df, i)
         /\ PlayedCount(Before(games_df, i), games_df[i].home_team_id) = 5
         /\ PlayedCount(Before(games_df, i), games_df[i].away_team_id) = 5
    /\ \E t \in DOMAIN p.team_stats :
         p.team_stats[t].games >= 11 /\ Len(p.team_stats[t].recent_form) = 10

(***************************************************************************)
(* C19: the basic and the full program produce pairs for the same rows     *)
(* with the same labels, and after every row hold the same games, wins,    *)
(* losses, points_for, points_against and recent_form for every team.      *)
(***************************************************************************)
SharedFields == {"games", "wins", "losses", "points_for", "points_against", "recent_form"}

SameStore(ts, us) ==
  /\ DOMAIN ts = DOMAIN us
  /\ \A t \in DOMAIN ts : \A f \in SharedFields : ts[t][f] = us[t][f]

C19_BasicMatchesFull ==
  /\ Len(basic.features) = Len(full.features)
  /\ basic.labels = full.labels
  /\ SameStore(basic.team_stats, full.team_stats)

(***************************************************************************)
(* C20: the store is balanced after every row: the wins of all teams, and  *)
(* their losses, sum to the number of scored rows handled so far, their    *)
(* games to twice that number, and their points_for to their               *)
(* points_against.                                                         *)
(***************************************************************************)
Total(ts, f) == SumOver(DOMAIN ts, [t \in DOMAIN ts |-> ts[t][f]])

ScoredRows(df) == Cardinality({ i \in 1..Len(df) : Complete(df[i]) })

Balanced(ts, df) ==
  /\ Total(ts, "wins") = ScoredRows(df)
  /\ Total(ts, "losses") = ScoredRows(df)
  /\ Total(ts, "games") = 2 * ScoredRows(df)
  /\ Total(ts, "points_for") = Total(ts, "points_against")

C20_StoreBalanced == \A p \in Programs : Balanced(p.team_stats, Done(p))

\* three teams in the store after six or more scored rows, one row without a score,
\* and points on the books
C20_Witness ==
  \A p \in Programs :
    /\ Cardinality(DOMAIN p.team_stats) = 3
    /\ ScoredRows(Done(p)) >= 6
    /\ ScoredRows(Done(p)) < Len(Done(p))
    /\ Total(p.team_stats, "points_for") >= 10
    /\ \A t \in DOMAIN p.team_stats : p.team_stats[t].games >= 1

====
